---- MODULE Spec2Model ----
(***************************************************************************)
(* Model of the UDP registration and relay engine of switch-server         *)
(* (src/src/service/udp_service.rs): the four moka caches, the per-token   *)
(* VirtualNetwork records behind their mutexes, the receive loop's         *)
(* handlers and the two eviction listeners.                                *)
(*                                                                         *)
(* Time is not modelled: a time-to-idle expiry is an action that may fire  *)
(* whenever the TTL constants of the caches allow the entry to be idle.    *)
(* A listener runs on a cache worker, after the entry has left the cache,  *)
(* concurrently with the receive loop.                                     *)
(***************************************************************************)
EXTENDS Integers, Sequences, FiniteSets, TLC

VARIABLES
    VIRTUAL_NETWORK,      \* token -> [epoch, virtual_ip_map]   (partial map)
    SESSION,              \* addr -> Context                    (partial map)
    DEVICE_ADDRESS,       \* <<token, ip>> -> addr              (partial map)
    MAC_ADDRESS_SESSION,  \* set of <<token, mac_address>>
    mutex,                \* token -> "free" or the holder of the network's Mutex
    pc,                   \* position of the receive loop
    local,                \* locals of the handler the receive loop is in
    out,                  \* the packets sent by the step just taken, in order
    session_hook,         \* <<>> or <<the running SESSION eviction listener>>
    mac_hook,             \* <<>> or <<the pending MAC_ADDRESS_SESSION listener>>
    expiries,             \* the number of time-to-idle expiries so far
    observed              \* token -> the epoch last sent to a client

vars == <<VIRTUAL_NETWORK, SESSION, DEVICE_ADDRESS, MAC_ADDRESS_SESSION, mutex,
          pc, local, out, session_hook, mac_hook, expiries, observed>>

----------------------------------------------------------------------------
(* Bounds of the model. *)

\* actions that raise an epoch are taken only below this epoch
MaxEpoch == 4
\* the number of time-to-idle expiries of a behaviour
MaxExpiries == 1

Tokens == {"t", "u"}
Macs == {1, 2}
V4Addrs == {"198.51.100.7:40000", "198.51.100.8:40000"}
V6Addrs == {"[2001:db8::1]:40000"}
Addrs == V4Addrs \cup V6Addrs

----------------------------------------------------------------------------
(* Program constants. *)

\* u32::from_be_bytes([10, 13, 0, 1])
virtual_gateway == 168624129
\* the pool is virtual_gateway + 1 .. virtual_gateway + 128 (exclusive)
PoolSpan == 128
\* Ipv4Addr::from([10, 13, 0, 255])
broadcast == <<10, 13, 0, 255>>

Pool == (virtual_gateway + 1) .. (virtual_gateway + PoolSpan - 1)

----------------------------------------------------------------------------
(* Partial maps. *)

EmptyMap == [x \in {} |-> 0]
Put(f, k, v) == [x \in (DOMAIN f) \cup {k} |-> IF x = k THEN v ELSE f[x]]
Del(f, k) == [x \in (DOMAIN f) \ {k} |-> f[x]]

\* Into<u8> for PeerDeviceStatus
StatusCode(status) == IF status = "Online" THEN 0 ELSE 1

\* message::DeviceInfo built from a DeviceInfo
DeviceRecord(device_info) ==
    [virtual_ip |-> device_info.ip, name |-> device_info.name,
     device_status |-> StatusCode(device_info.status)]

\* DeviceList without the test that leaves the requester out
DeviceListWithSelf(virtual_ip_map, virtual_ip) ==
    {DeviceRecord(virtual_ip_map[m]) : m \in DOMAIN virtual_ip_map}

\* the records of every device of the map whose ip is not virtual_ip
DeviceList(virtual_ip_map, virtual_ip) ==
    {DeviceRecord(virtual_ip_map[m]) :
        m \in {x \in DOMAIN virtual_ip_map : virtual_ip_map[x].ip # virtual_ip}}

UsedIps(virtual_ip_map) == {virtual_ip_map[m].ip : m \in DOMAIN virtual_ip_map}

\* FreeIp scanning the pool downwards
FreeIpHighest(virtual_ip_map) ==
    LET free == Pool \ UsedIps(virtual_ip_map)
    IN  IF free = {} THEN 0 ELSE CHOOSE ip \in free : \A j \in free : ip >= j

\* FreeIp scanning from the gateway itself
FreeIpFromGateway(virtual_ip_map) ==
    LET free == (virtual_gateway .. (virtual_gateway + PoolSpan - 1)) \ UsedIps(virtual_ip_map)
    IN  IF free = {} THEN 0 ELSE CHOOSE ip \in free : \A j \in free : ip <= j

\* FreeIp without the test against the ips in use
FreeIpIgnoringUsed(virtual_ip_map) == virtual_gateway + 1

\* FreeIp over the inclusive range virtual_gateway + 1 ..= virtual_gateway + 128
FreeIpInclusive(virtual_ip_map) ==
    LET free == ((virtual_gateway + 1) .. (virtual_gateway + PoolSpan)) \ UsedIps(virtual_ip_map)
    IN  IF free = {} THEN 0 ELSE CHOOSE ip \in free : \A j \in free : ip <= j

\* the first ip of the pool, in ascending order, that no device holds; 0 if none
FreeIp(virtual_ip_map) ==
    LET free == Pool \ UsedIps(virtual_ip_map)
    IN  IF free = {} THEN 0 ELSE CHOOSE ip \in free : \A j \in free : ip <= j

IsV4(addr) == addr \in V4Addrs

\* EpochBump that only counts the first registration of a record
EpochHeld(epoch) == IF epoch = 0 THEN 1 ELSE epoch

\* EpochBump that loses the increment
EpochStuck(epoch) == epoch

\* lock.epoch += 1; the epoch is a u32, which the epochs of the model stay
\* far below
EpochBump(epoch) == epoch + 1

NewNetwork == [epoch |-> 0, virtual_ip_map |-> EmptyMap]

\* VIRTUAL_NETWORK.optionally_get_with(token, || new network): the record the
\* handler works on
NetworkOf(token) ==
    IF token \in DOMAIN VIRTUAL_NETWORK THEN VIRTUAL_NETWORK[token] ELSE NewNetwork

\* Binding that never looks the MAC up
BindingAlwaysFresh(virtual_ip_map, mac_address, now) == <<now, 0>>

\* the (id, virtual_ip) the registration starts from: those of the device the
\* MAC already has, or a fresh id and no ip
Binding(virtual_ip_map, mac_address, now) ==
    IF mac_address \in DOMAIN virtual_ip_map
    THEN <<virtual_ip_map[mac_address].id, virtual_ip_map[mac_address].ip>>
    ELSE <<now, 0>>

\* Authorised without the device address check
AuthorisedWithoutDeviceAddress(addr) ==
    /\ addr \in DOMAIN SESSION
    /\ <<SESSION[addr].token, SESSION[addr].mac_address>> \in MAC_ADDRESS_SESSION

\* the checks that guard handle_: the session of addr, the device address of
\* its (token, virtual_ip) and the MAC session of its (token, mac_address)
Authorised(addr) ==
    /\ addr \in DOMAIN SESSION
    /\ <<SESSION[addr].token, SESSION[addr].virtual_ip>> \in DOMAIN DEVICE_ADDRESS
    /\ <<SESSION[addr].token, SESSION[addr].mac_address>> \in MAC_ADDRESS_SESSION

ErrorPacket(protocol, addr) == [kind |-> protocol, to |-> addr]

\* SetOffline that leaves the status as it is
SetOfflineLost(virtual_ip_map, mac_address) == virtual_ip_map

\* item.status = PeerDeviceStatus::Offline
SetOffline(virtual_ip_map, mac_address) ==
    [virtual_ip_map EXCEPT ![mac_address].status = "Offline"]

----------------------------------------------------------------------------
(* The datagrams the receive loop is given. *)

Requests ==
    {[token |-> "t", mac_address |-> 1, name |-> "A"],
     [token |-> "t", mac_address |-> 2, name |-> "B"]}
Pings == [kind : {"ping"}, epoch : {1, 2}]
\* the destinations of turn frames, as Ipv4Addr octets
Dests == {<<10, 13, 0, 2>>, <<10, 13, 0, 3>>, broadcast, <<255, 255, 255, 255>>}
Turns == [kind : {"turn"}, dest : Dests]
Others == [kind : {"other"}]

\* Ipv4Addr::is_broadcast
is_broadcast(dest) == dest = <<255, 255, 255, 255>>

\* line 323: the limited broadcast or the directed broadcast of the subnet
IsBroadcast(dest) == is_broadcast(dest) \/ (dest[4] = 255 /\ broadcast = dest)

\* From<Ipv4Addr> for u32
IpToU32(dest) == ((dest[1] * 256 + dest[2]) * 256 + dest[3]) * 256 + dest[4]

\* the ids still held by a device, a session, a handler or a listener
IdsHeld ==
    UNION {{VIRTUAL_NETWORK[t].virtual_ip_map[m].id :
               m \in DOMAIN VIRTUAL_NETWORK[t].virtual_ip_map} : t \in DOMAIN VIRTUAL_NETWORK}
    \cup {SESSION[a].id : a \in DOMAIN SESSION}
    \cup {session_hook[i].context.id : i \in DOMAIN session_hook}
    \cup (IF pc = "recv" THEN {} ELSE {local.context.id})

\* Local::now().timestamp_millis(): the clock has moved on since every id
\* that is still held was drawn, so the stamp is later than all of them; the
\* next value after them stands for the stamp
Now == IF IdsHeld = {} THEN 0
       ELSE 1 + (CHOOSE n \in IdsHeld : \A k \in IdsHeld : n >= k)

----------------------------------------------------------------------------
(* handle: a Service/RegistrationRequest. *)

\* a listener that acts whatever the cause of the removal
ListenerRunsAlways(cause) == TRUE

\* lines 21-23, 35-37: a listener returns at once unless the cause of the
\* removal is RemovalCause::Expired
ListenerRuns(cause) == cause = "Expired"

\* lines 128-137: a request from an IPv6 address is logged and dropped
RegisterV6(addr, request) ==
    /\ pc = "recv"
    /\ ~IsV4(addr)
    /\ out' = <<>>
    /\ UNCHANGED <<VIRTUAL_NETWORK, SESSION, DEVICE_ADDRESS, MAC_ADDRESS_SESSION,
                   mutex, pc, local, session_hook, mac_hook, observed>>

\* lines 141-203: everything done under the network's lock
RegisterLock(addr, request) ==
    LET token == request.token
        mac == request.mac_address
        net == NetworkOf(token)
        epoch == EpochBump(net.epoch)
        present == mac \in DOMAIN net.virtual_ip_map
        binding == Binding(net.virtual_ip_map, mac, Now)
        id == binding[1]
        map1 == IF present
                THEN [net.virtual_ip_map EXCEPT ![mac].status = "Online"]
                ELSE net.virtual_ip_map
        virtual_ip == IF binding[2] = 0 THEN FreeIp(map1) ELSE binding[2]
        map2 == IF binding[2] = 0
                THEN Put(map1, mac, [id |-> id, name |-> request.name,
                                     ip |-> virtual_ip, status |-> "Online"])
                ELSE map1
    IN  /\ pc = "recv"
        /\ IsV4(addr)
        /\ token \in DOMAIN VIRTUAL_NETWORK => mutex[token] = "free"
        /\ IF virtual_ip = 0
           THEN /\ VIRTUAL_NETWORK' =
                      Put(VIRTUAL_NETWORK, token, [epoch |-> epoch, virtual_ip_map |-> map1])
                /\ out' = <<ErrorPacket("AddressExhausted", addr)>>
                /\ UNCHANGED <<SESSION, DEVICE_ADDRESS, MAC_ADDRESS_SESSION, pc, local,
                               mac_hook>>
           ELSE /\ VIRTUAL_NETWORK' =
                      Put(VIRTUAL_NETWORK, token, [epoch |-> epoch, virtual_ip_map |-> map2])
                /\ MAC_ADDRESS_SESSION' = MAC_ADDRESS_SESSION \cup {<<token, mac>>}
                /\ mac_hook' = IF <<token, mac>> \in MAC_ADDRESS_SESSION
                                   /\ ListenerRuns("Replaced")
                                THEN <<<<token, mac>>>>
                                ELSE mac_hook
                /\ DEVICE_ADDRESS' = Put(DEVICE_ADDRESS, <<token, virtual_ip>>, addr)
                /\ local' = [addr |-> addr,
                             response |-> [public |-> addr,
                                           virtual_gateway |-> virtual_gateway,
                                           virtual_ip |-> virtual_ip,
                                           epoch |-> epoch,
                                           device_info_list |-> DeviceList(map2, virtual_ip)],
                             context |-> [token |-> token, virtual_ip |-> virtual_ip,
                                          id |-> id, mac_address |-> mac]]
                /\ pc' = "reg_session"
                /\ out' = <<>>
                /\ UNCHANGED SESSION
        /\ UNCHANGED <<mutex, session_hook, observed>>

\* lines 204-224: after the lock is dropped, the session is inserted and the
\* response sent
RegisterSession ==
    /\ pc = "reg_session"
    /\ SESSION' = Put(SESSION, local.addr, local.context)
    /\ out' = <<[kind |-> "RegistrationResponse", to |-> local.addr,
                 response |-> local.response]>>
    /\ observed' = [observed EXCEPT ![local.context.token] = local.response.epoch]
    /\ session_hook' = IF local.addr \in DOMAIN SESSION /\ ListenerRuns("Replaced")
                       THEN <<[addr |-> local.addr, context |-> SESSION[local.addr],
                               pc |-> "start"]>>
                       ELSE session_hook
    /\ pc' = "recv"
    /\ local' = <<>>
    /\ UNCHANGED <<VIRTUAL_NETWORK, DEVICE_ADDRESS, MAC_ADDRESS_SESSION, mutex,
                   mac_hook>>

----------------------------------------------------------------------------
(* handle and handle_: every other datagram. *)

\* lines 225-245: without the session, the device address or the MAC session
\* the sender is told to register again
Disconnect(addr) ==
    /\ pc = "recv"
    /\ ~Authorised(addr)
    /\ out' = <<ErrorPacket("Disconnect", addr)>>
    /\ UNCHANGED <<VIRTUAL_NETWORK, SESSION, DEVICE_ADDRESS, MAC_ADDRESS_SESSION,
                   mutex, pc, local, session_hook, mac_hook, observed>>

\* lines 255-263, 315, 347: Service, Error, Unknown and Control other than Ping
\* are ignored
Ignore(addr, packet) ==
    /\ pc = "recv"
    /\ packet.kind = "other"
    /\ Authorised(addr)
    /\ out' = <<>>
    /\ UNCHANGED <<VIRTUAL_NETWORK, SESSION, DEVICE_ADDRESS, MAC_ADDRESS_SESSION,
                   mutex, pc, local, session_hook, mac_hook, observed>>

\* lines 266-274: the Pong
Ping(addr, packet) ==
    /\ pc = "recv"
    /\ packet.kind = "ping"
    /\ Authorised(addr)
    /\ out' = <<[kind |-> "Pong", to |-> addr]>>
    /\ local' = [addr |-> addr, context |-> SESSION[addr], epoch |-> packet.epoch]
    /\ pc' = "ping"
    /\ UNCHANGED <<VIRTUAL_NETWORK, SESSION, DEVICE_ADDRESS, MAC_ADDRESS_SESSION,
                   mutex, session_hook, mac_hook, observed>>

\* the epochs always taken to differ
EpochAlwaysDiffers(lock_epoch, ping_epoch) == TRUE

\* line 278: lock.epoch != ping.epoch()
EpochDiffers(lock_epoch, ping_epoch) == lock_epoch # ping_epoch

\* lines 275-313: the device list, when the lock is free and the epochs differ
PingUpdate ==
    LET token == local.context.token
        send == /\ token \in DOMAIN VIRTUAL_NETWORK
                /\ mutex[token] = "free"
                /\ EpochDiffers(VIRTUAL_NETWORK[token].epoch, local.epoch)
    IN  /\ pc = "ping"
        /\ IF send
           THEN /\ out' = <<[kind |-> "UpdateDeviceList", to |-> local.addr,
                             epoch |-> VIRTUAL_NETWORK[token].epoch,
                             device_info_list |->
                                 DeviceList(VIRTUAL_NETWORK[token].virtual_ip_map,
                                            local.context.virtual_ip)]>>
                /\ observed' = [observed EXCEPT ![token] = VIRTUAL_NETWORK[token].epoch]
           ELSE /\ out' = <<>>
                /\ UNCHANGED observed
        /\ pc' = "recv"
        /\ local' = <<>>
        /\ UNCHANGED <<VIRTUAL_NETWORK, SESSION, DEVICE_ADDRESS, MAC_ADDRESS_SESSION,
                       mutex, session_hook, mac_hook>>

\* Peer that looks the ip up under any token
PeerOfAnyToken(token, ip) ==
    LET keys == {k \in DOMAIN DEVICE_ADDRESS : k[2] = ip}
    IN  IF keys = {} THEN <<>> ELSE <<DEVICE_ADDRESS[CHOOSE k \in keys : TRUE]>>

\* lines 341-342: DEVICE_ADDRESS.get(&(context.token, destination)), an Option
Peer(token, ip) ==
    IF <<token, ip>> \in DOMAIN DEVICE_ADDRESS
    THEN <<DEVICE_ADDRESS[<<token, ip>>]>>
    ELSE <<>>

\* lines 341-345: a frame for one peer
TurnUnicast(addr, packet) ==
    LET peer == Peer(SESSION[addr].token, IpToU32(packet.dest))
    IN  /\ pc = "recv"
        /\ packet.kind = "turn"
        /\ ~IsBroadcast(packet.dest)
        /\ Authorised(addr)
        /\ out' = IF peer # <<>>
                  THEN <<[kind |-> "Turn", to |-> peer[1],
                          from |-> addr, dest |-> packet.dest]>>
                  ELSE <<>>
        /\ UNCHANGED <<VIRTUAL_NETWORK, SESSION, DEVICE_ADDRESS, MAC_ADDRESS_SESSION,
                       mutex, pc, local, session_hook, mac_hook, observed>>

\* OtherIps without the filter that leaves the sender out
OtherIpsWithSelf(virtual_ip_map, virtual_ip) == UsedIps(virtual_ip_map)

\* lines 327-332: the ips of the devices, but for the ip of the sender
OtherIps(virtual_ip_map, virtual_ip) == UsedIps(virtual_ip_map) \ {virtual_ip}

\* lines 323-333: the ips of the other devices, read under try_lock
TurnBroadcast(addr, packet) ==
    LET token == SESSION[addr].token
        locked == token \in DOMAIN VIRTUAL_NETWORK /\ mutex[token] = "free"
    IN  /\ pc = "recv"
        /\ packet.kind = "turn"
        /\ IsBroadcast(packet.dest)
        /\ Authorised(addr)
        /\ out' = <<>>
        /\ IF locked
           THEN /\ local' = [addr |-> addr, context |-> SESSION[addr],
                             dest |-> packet.dest,
                             ips |-> OtherIps(VIRTUAL_NETWORK[token].virtual_ip_map,
                                              SESSION[addr].virtual_ip)]
                /\ pc' = "broadcast"
           ELSE UNCHANGED <<pc, local>>
        /\ UNCHANGED <<VIRTUAL_NETWORK, SESSION, DEVICE_ADDRESS, MAC_ADDRESS_SESSION,
                       mutex, session_hook, mac_hook, observed>>

\* the orders a HashMap may be iterated in
Orders(S) == {s \in [1 .. Cardinality(S) -> S] : \A i, j \in DOMAIN s : s[i] = s[j] => i = j}

\* lines 334-338: the frame goes to every ip of the snapshot that has a device
\* address
BroadcastSend ==
    /\ pc = "broadcast"
    /\ \E order \in Orders({ip \in local.ips :
                               <<local.context.token, ip>> \in DOMAIN DEVICE_ADDRESS}) :
          out' = [i \in DOMAIN order |->
                     [kind |-> "Turn", to |-> DEVICE_ADDRESS[<<local.context.token, order[i]>>],
                      from |-> local.addr, dest |-> local.dest]]
    /\ pc' = "recv"
    /\ local' = <<>>
    /\ UNCHANGED <<VIRTUAL_NETWORK, SESSION, DEVICE_ADDRESS, MAC_ADDRESS_SESSION,
                   mutex, session_hook, mac_hook, observed>>

----------------------------------------------------------------------------
(* Time to idle. A handler runs for microseconds and the shortest time to  *)
(* idle is 10 s: an entry that the handler in progress has read or written *)
(* does not expire under it.                                              *)

\* the receive loop is inside handle_ for a datagram of addr (SESSION.get)
Serving(addr) == pc \in {"ping", "broadcast"} /\ local.addr = addr

\* the handler in progress has read or inserted the MAC session of key
TouchedMac(key) ==
    pc # "recv" /\ key = <<local.context.token, local.context.mac_address>>

\* the handler in progress has read or inserted the device address of key
TouchedAddress(key) ==
    pc # "recv" /\ key = <<local.context.token, local.context.virtual_ip>>

\* the handler in progress has looked the network of token up
TouchedNetwork(token) ==
    pc \in {"reg_session", "broadcast"} /\ token = local.context.token

----------------------------------------------------------------------------
(* The SESSION cache: time_to_idle of 10 s and its eviction listener. *)

\* the entry of addr expires; its listener is handed the Context
SessionExpire(addr) ==
    /\ addr \in DOMAIN SESSION
    /\ ~Serving(addr)
    /\ session_hook = <<>>
    /\ SESSION' = Del(SESSION, addr)
    /\ session_hook' = IF ListenerRuns("Expired")
                       THEN <<[addr |-> addr, context |-> SESSION[addr], pc |-> "start"]>>
                       ELSE <<>>
    /\ out' = <<>>
    /\ UNCHANGED <<VIRTUAL_NETWORK, DEVICE_ADDRESS, MAC_ADDRESS_SESSION, mutex,
                   pc, local, mac_hook, observed>>

\* lines 39-46: the network is looked up and locked; the id-match guard; the
\* device is set Offline
SessionHookLock ==
    /\ session_hook # <<>>
    /\ session_hook[1].pc = "start"
    /\ LET context == session_hook[1].context
           token == context.token
           mac == context.mac_address
       IN  IF token \notin DOMAIN VIRTUAL_NETWORK
           THEN /\ session_hook' = <<>>
                /\ UNCHANGED <<VIRTUAL_NETWORK, mutex>>
           ELSE /\ mutex[token] = "free"
                /\ LET map == VIRTUAL_NETWORK[token].virtual_ip_map
                   IN  IF mac \in DOMAIN map
                       THEN IF map[mac].id # context.id
                            THEN /\ session_hook' = <<>>
                                 /\ UNCHANGED <<VIRTUAL_NETWORK, mutex>>
                            ELSE /\ VIRTUAL_NETWORK' =
                                       [VIRTUAL_NETWORK EXCEPT
                                           ![token].virtual_ip_map = SetOffline(map, mac)]
                                 /\ mutex' = [mutex EXCEPT ![token] = "session_hook"]
                                 /\ session_hook' =
                                       <<[session_hook[1] EXCEPT !.pc = "invalidate"]>>
                       ELSE /\ mutex' = [mutex EXCEPT ![token] = "session_hook"]
                            /\ session_hook' =
                                  <<[session_hook[1] EXCEPT !.pc = "invalidate"]>>
                            /\ UNCHANGED VIRTUAL_NETWORK
    /\ out' = <<>>
    /\ UNCHANGED <<SESSION, DEVICE_ADDRESS, MAC_ADDRESS_SESSION, pc, local,
                   mac_hook, observed>>

\* line 47: DEVICE_ADDRESS.invalidate(&(context.token, context.virtual_ip))
SessionHookInvalidate ==
    /\ session_hook # <<>>
    /\ session_hook[1].pc = "invalidate"
    /\ DEVICE_ADDRESS' = Del(DEVICE_ADDRESS, <<session_hook[1].context.token,
                                               session_hook[1].context.virtual_ip>>)
    /\ session_hook' = <<[session_hook[1] EXCEPT !.pc = "epoch"]>>
    /\ out' = <<>>
    /\ UNCHANGED <<VIRTUAL_NETWORK, SESSION, MAC_ADDRESS_SESSION, mutex, pc, local,
                   mac_hook, observed>>

\* Unlock that leaves the Mutex held
UnlockLost(m, token) == m

\* line 49: the MutexGuard of the listener goes out of scope
Unlock(m, token) == [m EXCEPT ![token] = "free"]

\* lines 48-49: lock.epoch += 1, and the lock is dropped
SessionHookEpoch ==
    /\ session_hook # <<>>
    /\ session_hook[1].pc = "epoch"
    /\ LET token == session_hook[1].context.token
       IN  /\ VIRTUAL_NETWORK' = [VIRTUAL_NETWORK EXCEPT
                                     ![token].epoch = EpochBump(VIRTUAL_NETWORK[token].epoch)]
           /\ mutex' = Unlock(mutex, token)
    /\ session_hook' = <<>>
    /\ out' = <<>>
    /\ UNCHANGED <<SESSION, DEVICE_ADDRESS, MAC_ADDRESS_SESSION, pc, local,
                   mac_hook, observed>>

----------------------------------------------------------------------------
(* The MAC_ADDRESS_SESSION cache: time_to_idle of 7 days and its listener. *)

\* the entry of key expires. Every datagram of a session that passes the
\* checks of handle reads the entry, and a session idles out after 10 s: the
\* entry outlives every session that is bound to key and has its device
\* address
MacExpire(key) ==
    /\ key \in MAC_ADDRESS_SESSION
    /\ ~TouchedMac(key)
    /\ \A a \in DOMAIN SESSION :
          <<SESSION[a].token, SESSION[a].mac_address>> = key
              => <<SESSION[a].token, SESSION[a].virtual_ip>> \notin DOMAIN DEVICE_ADDRESS
    /\ mac_hook = <<>>
    /\ MAC_ADDRESS_SESSION' = MAC_ADDRESS_SESSION \ {key}
    /\ mac_hook' = IF ListenerRuns("Expired") THEN <<key>> ELSE <<>>
    /\ out' = <<>>
    /\ UNCHANGED <<VIRTUAL_NETWORK, SESSION, DEVICE_ADDRESS, mutex, pc, local,
                   session_hook, observed>>

\* lines 25-29: the MAC leaves the device map and the epoch is raised
MacHook ==
    /\ mac_hook # <<>>
    /\ LET token == mac_hook[1][1]
           mac == mac_hook[1][2]
       IN  IF token \notin DOMAIN VIRTUAL_NETWORK
           THEN UNCHANGED VIRTUAL_NETWORK
           ELSE /\ mutex[token] = "free"
                /\ VIRTUAL_NETWORK' =
                      [VIRTUAL_NETWORK EXCEPT
                          ![token] = [epoch |-> EpochBump(@.epoch),
                                      virtual_ip_map |-> Del(@.virtual_ip_map, mac)]]
    /\ mac_hook' = <<>>
    /\ out' = <<>>
    /\ UNCHANGED <<SESSION, DEVICE_ADDRESS, MAC_ADDRESS_SESSION, mutex, pc, local,
                   session_hook, observed>>

----------------------------------------------------------------------------
(* The caches without a listener. *)

\* DEVICE_ADDRESS, time_to_idle of 122 s: every datagram of a live session
\* reads the entry of its (token, virtual_ip), and a session idles out after
\* 10 s, so the entry outlives every session bound to its key
DeviceAddressExpire(key) ==
    /\ key \in DOMAIN DEVICE_ADDRESS
    /\ ~TouchedAddress(key)
    /\ \A a \in DOMAIN SESSION : <<SESSION[a].token, SESSION[a].virtual_ip>> # key
    /\ DEVICE_ADDRESS' = Del(DEVICE_ADDRESS, key)
    /\ out' = <<>>
    /\ UNCHANGED <<VIRTUAL_NETWORK, SESSION, MAC_ADDRESS_SESSION, mutex, pc, local,
                   session_hook, mac_hook, observed>>

\* VIRTUAL_NETWORK, time_to_idle of 7 days: the record of an idle token is
\* dropped, and the next registration starts a new one at epoch 0
NetworkExpire(token) ==
    /\ token \in DOMAIN VIRTUAL_NETWORK
    /\ ~TouchedNetwork(token)
    /\ mutex[token] = "free"
    /\ VIRTUAL_NETWORK' = Del(VIRTUAL_NETWORK, token)
    /\ out' = <<>>
    /\ UNCHANGED <<SESSION, DEVICE_ADDRESS, MAC_ADDRESS_SESSION, mutex, pc, local,
                   session_hook, mac_hook, observed>>

----------------------------------------------------------------------------
(* The specification. *)

Init ==
    /\ VIRTUAL_NETWORK = EmptyMap
    /\ SESSION = EmptyMap
    /\ DEVICE_ADDRESS = EmptyMap
    /\ MAC_ADDRESS_SESSION = {}
    /\ mutex = [t \in Tokens |-> "free"]
    /\ pc = "recv"
    /\ local = <<>>
    /\ out = <<>>
    /\ session_hook = <<>>
    /\ mac_hook = <<>>
    /\ expiries = 0
    /\ observed = [t \in Tokens |-> 0]

\* the epoch of the token's network can still be raised within the bound
EpochBelow(token, bound) ==
    token \in DOMAIN VIRTUAL_NETWORK => VIRTUAL_NETWORK[token].epoch < bound

\* a time-to-idle expiry, counted
Expiry(A) ==
    /\ expiries < MaxExpiries
    /\ A
    /\ expiries' = expiries + 1

\* a step of the receive loop or of a listener
Step(A) == A /\ UNCHANGED expiries

Next ==
    \/ \E addr \in Addrs, request \in Requests : Step(RegisterV6(addr, request))
    \/ \E addr \in Addrs, request \in Requests :
          /\ EpochBelow(request.token, MaxEpoch)
          /\ Step(RegisterLock(addr, request))
    \/ Step(RegisterSession)
    \/ \E addr \in Addrs : Step(Disconnect(addr))
    \/ \E addr \in Addrs, packet \in Others : Step(Ignore(addr, packet))
    \/ \E addr \in Addrs, packet \in Pings : Step(Ping(addr, packet))
    \/ Step(PingUpdate)
    \/ \E addr \in Addrs, packet \in Turns : Step(TurnUnicast(addr, packet))
    \/ \E addr \in Addrs, packet \in Turns : Step(TurnBroadcast(addr, packet))
    \/ Step(BroadcastSend)
    \/ \E addr \in Addrs : Expiry(SessionExpire(addr))
    \/ /\ session_hook # <<>>
       /\ EpochBelow(session_hook[1].context.token, MaxEpoch)
       /\ Step(SessionHookLock)
    \/ Step(SessionHookInvalidate)
    \/ Step(SessionHookEpoch)
    \/ \E key \in Tokens \X Macs : Expiry(MacExpire(key))
    \/ /\ mac_hook # <<>>
       /\ EpochBelow(mac_hook[1][1], MaxEpoch)
       /\ Step(MacHook)
    \/ \E key \in Tokens \X Pool : Expiry(DeviceAddressExpire(key))
    \/ \E token \in Tokens : Expiry(NetworkExpire(token))

Spec == Init /\ [][Next]_vars

----------------------------------------------------------------------------
(* Filling the pool: one sender registers one new MAC after the other. *)

PoolAddr == "198.51.100.7:40000"

\* the request of the next MAC that token "t" has not seen
PoolRequest ==
    [token |-> "t",
     mac_address |-> Cardinality(DOMAIN NetworkOf("t").virtual_ip_map) + 1,
     name |-> "A"]

NextPool ==
    \/ /\ EpochBelow("t", PoolSpan)
       /\ Step(RegisterLock(PoolAddr, PoolRequest))
    \/ Step(RegisterSession)

SpecPool == Init /\ [][NextPool]_vars

----------------------------------------------------------------------------
(* Two networks: the devices of token "t" hold 10.13.0.2 and 10.13.0.3,    *)
(* the device of token "u" holds 10.13.0.2, and they send frames.          *)

TokenRequests ==
    {[token |-> "t", mac_address |-> 1, name |-> "A"],
     [token |-> "t", mac_address |-> 2, name |-> "B"],
     [token |-> "u", mac_address |-> 1, name |-> "A"]}

NextTokens ==
    \/ \E addr \in V4Addrs, request \in TokenRequests :
          /\ EpochBelow(request.token, MaxEpoch)
          /\ Step(RegisterLock(addr, request))
    \/ Step(RegisterSession)
    \/ \E addr \in V4Addrs : Step(Disconnect(addr))
    \/ \E addr \in V4Addrs, packet \in Turns : Step(TurnUnicast(addr, packet))
    \/ \E addr \in V4Addrs, packet \in Turns : Step(TurnBroadcast(addr, packet))
    \/ Step(BroadcastSend)

SpecTokens == Init /\ [][NextTokens]_vars

----------------------------------------------------------------------------
(* Datagrams that fail: handle returns an Err, which handle_loop logs, or  *)
(* it panics, which unwinds handle_loop.                                   *)

\* line 272: the Pong echoes the first 8 bytes of the payload of the Ping
PongEcho == 8

\* Pings whose payload is cut short
ShortPings == [kind : {"ping"}, len : {0, 7}]

\* lines 118, 125: NetPacket::new or parse_from_bytes fails; the Err is
\* logged at lines 108-113
Malformed(addr) ==
    /\ pc = "recv"
    /\ out' = <<>>
    /\ UNCHANGED <<VIRTUAL_NETWORK, SESSION, DEVICE_ADDRESS, MAC_ADDRESS_SESSION,
                   mutex, pc, local, session_hook, mac_hook, observed>>

\* lines 204-223: the session is inserted, and send_to fails for the response
RegisterSendFails ==
    /\ pc = "reg_session"
    /\ SESSION' = Put(SESSION, local.addr, local.context)
    /\ session_hook' = IF local.addr \in DOMAIN SESSION /\ ListenerRuns("Replaced")
                       THEN <<[addr |-> local.addr, context |-> SESSION[local.addr],
                               pc |-> "start"]>>
                       ELSE session_hook
    /\ out' = <<>>
    /\ pc' = "recv"
    /\ local' = <<>>
    /\ UNCHANGED <<VIRTUAL_NETWORK, DEVICE_ADDRESS, MAC_ADDRESS_SESSION, mutex,
                   mac_hook, observed>>

\* lines 266-273: send_to fails for the Pong, and the Err leaves handle_
PongSendFails(addr, packet) ==
    /\ pc = "recv"
    /\ packet.kind = "ping"
    /\ Authorised(addr)
    /\ out' = <<>>
    /\ UNCHANGED <<VIRTUAL_NETWORK, SESSION, DEVICE_ADDRESS, MAC_ADDRESS_SESSION,
                   mutex, pc, local, session_hook, mac_hook, observed>>

\* line 272: &net_packet.payload()[..8] of a payload shorter than 8 bytes
\* panics; no Pong has been sent, and the receive loop is gone
PingTruncated(addr, packet) ==
    /\ pc = "recv"
    /\ packet.kind = "ping"
    /\ packet.len < PongEcho
    /\ Authorised(addr)
    /\ pc' = "panicked"
    /\ out' = <<>>
    /\ UNCHANGED <<VIRTUAL_NETWORK, SESSION, DEVICE_ADDRESS, MAC_ADDRESS_SESSION,
                   mutex, local, session_hook, mac_hook, observed>>

NextLoop ==
    \/ \E addr \in V4Addrs, request \in Requests :
          /\ EpochBelow(request.token, MaxEpoch)
          /\ Step(RegisterLock(addr, request))
    \/ Step(RegisterSession)
    \/ Step(RegisterSendFails)
    \/ \E addr \in Addrs : Step(Malformed(addr))
    \/ \E addr \in Addrs : Step(Disconnect(addr))
    \/ \E addr \in Addrs, packet \in Pings : Step(Ping(addr, packet))
    \/ Step(PingUpdate)
    \/ \E addr \in Addrs, packet \in Pings : Step(PongSendFails(addr, packet))
    \/ \E addr \in Addrs, packet \in ShortPings : Step(PingTruncated(addr, packet))

SpecLoop == Init /\ [][NextLoop]_vars

----------------------------------------------------------------------------
(* A client that pings with an epoch it cannot have been given, while      *)
(* registrations and session expiries go on. A handler and a listener,     *)
(* once begun, run to their end.                                           *)

\* Pings with epoch 0, which no network has once it exists
StalePings == [kind : {"ping"}, epoch : {0}]

NextLive ==
    \/ \E addr \in V4Addrs, request \in Requests :
          /\ EpochBelow(request.token, MaxEpoch)
          /\ Step(RegisterLock(addr, request))
    \/ Step(RegisterSession)
    \/ \E addr \in V4Addrs, packet \in StalePings : Step(Ping(addr, packet))
    \/ Step(PingUpdate)
    \/ \E addr \in V4Addrs : Expiry(SessionExpire(addr))
    \/ /\ session_hook # <<>>
       /\ EpochBelow(session_hook[1].context.token, MaxEpoch)
       /\ Step(SessionHookLock)
    \/ Step(SessionHookInvalidate)
    \/ Step(SessionHookEpoch)

SpecLive ==
    /\ Init
    /\ [][NextLive]_vars
    /\ WF_vars(Step(RegisterSession))
    /\ WF_vars(Step(PingUpdate))
    /\ WF_vars(Step(SessionHookInvalidate))
    /\ WF_vars(Step(SessionHookEpoch))

----------------------------------------------------------------------------
(* Long idle times: registrations and the expiries of sessions, of MAC     *)
(* sessions and of network records, without other traffic, so that two     *)
(* expiries fit into the bounds.                                           *)

MaxIdleExpiries == 2

\* a time-to-idle expiry, counted against MaxIdleExpiries
IdleExpiry(A) ==
    /\ expiries < MaxIdleExpiries
    /\ A
    /\ expiries' = expiries + 1

NextIdle ==
    \/ \E addr \in V4Addrs, request \in Requests :
          /\ EpochBelow(request.token, MaxEpoch)
          /\ Step(RegisterLock(addr, request))
    \/ Step(RegisterSession)
    \/ \E addr \in V4Addrs : IdleExpiry(SessionExpire(addr))
    \/ /\ session_hook # <<>>
       /\ EpochBelow(session_hook[1].context.token, MaxEpoch)
       /\ Step(SessionHookLock)
    \/ Step(SessionHookInvalidate)
    \/ Step(SessionHookEpoch)
    \/ \E key \in {"t"} \X Macs : IdleExpiry(MacExpire(key))
    \/ /\ mac_hook # <<>>
       /\ EpochBelow(mac_hook[1][1], MaxEpoch)
       /\ Step(MacHook)
    \/ IdleExpiry(NetworkExpire("t"))

SpecIdle == Init /\ [][NextIdle]_vars

----------------------------------------------------------------------------
(* Definitions shared by the properties. *)

\* the device map of a token, empty where the token has no network
MapOf(token) == NetworkOf(token).virtual_ip_map

\* the epoch of a token's network, 0 where the token has no network
EpochOf(token) == NetworkOf(token).epoch

\* the same after the step
EpochAfter(token) ==
    IF token \in DOMAIN VIRTUAL_NETWORK' THEN VIRTUAL_NETWORK'[token].epoch ELSE 0

\* the device map of a token after the step
MapAfter(token) ==
    IF token \in DOMAIN VIRTUAL_NETWORK' THEN VIRTUAL_NETWORK'[token].virtual_ip_map
    ELSE EmptyMap

\* the receive loop takes the registration of local'.context through the
\* locked section
Registers == pc = "recv" /\ pc' = "reg_session"

\* the registration responses in flight or just sent
Responses ==
    (IF pc = "reg_session" THEN {local.response} ELSE {})
    \cup {out[i].response : i \in {j \in DOMAIN out : out[j].kind = "RegistrationResponse"}}

----------------------------------------------------------------------------
(* C1 *)

\* C1: in every reachable state, no two distinct MACs of a token's device map
\* hold the same virtual ip
C1_UniqueIp ==
    \A t \in Tokens : \A m1, m2 \in DOMAIN MapOf(t) :
        m1 # m2 => MapOf(t)[m1].ip # MapOf(t)[m2].ip

\* 10.13.0.2, freed when the MAC session of MAC 1 expired, has been handed
\* out again: its DeviceInfo is younger than the one of MAC 2, which holds
\* 10.13.0.3
C1_Witness ==
    /\ pc = "recv"
    /\ expiries = 1
    /\ DOMAIN MapOf("t") = {1, 2}
    /\ MapOf("t")[1].ip = virtual_gateway + 1
    /\ MapOf("t")[2].ip = virtual_gateway + 2
    /\ MapOf("t")[1].id > MapOf("t")[2].id

----------------------------------------------------------------------------
(* C2 *)

\* C2, as claimed: every virtual ip stored in a DeviceInfo or carried by a
\* RegistrationResponse lies in [0x0A0D0002, 0x0A0D0080): 10.13.0.2 up to but
\* not including 10.13.0.128
C2_IpInPool ==
    /\ \A t \in Tokens : \A m \in DOMAIN MapOf(t) :
          MapOf(t)[m].ip >= 168624130 /\ MapOf(t)[m].ip < 168624256
    /\ \A r \in Responses : r.virtual_ip >= 168624130 /\ r.virtual_ip < 168624256

\* C2, amended: every virtual ip stored in a DeviceInfo or carried by a
\* RegistrationResponse lies in [gateway + 1, gateway + 128), which is
\* 10.13.0.2 up to and including 10.13.0.128; the gateway is never assigned
C2_IpInScannedRange ==
    /\ \A t \in Tokens : \A m \in DOMAIN MapOf(t) :
          /\ MapOf(t)[m].ip >= virtual_gateway + 1
          /\ MapOf(t)[m].ip < virtual_gateway + 128
    /\ \A r \in Responses :
          /\ r.virtual_ip >= virtual_gateway + 1
          /\ r.virtual_ip < virtual_gateway + 128
    /\ pc = "reg_session" =>
          /\ local.response.virtual_ip >= virtual_gateway + 1
          /\ local.response.virtual_ip < virtual_gateway + 128

\* the response that assigns 10.13.0.128, the last address of the scan, has
\* been sent, and a DeviceInfo stores that address
C2_Witness ==
    /\ \E i \in DOMAIN out :
          /\ out[i].kind = "RegistrationResponse"
          /\ out[i].response.virtual_ip = 168624256
    /\ \E m \in DOMAIN MapOf("t") : MapOf("t")[m].ip = 168624256

----------------------------------------------------------------------------
(* C3 *)

\* C3, as claimed: for every token the epoch sent to its clients never
\* decreases, every successful registration raises the epoch by at least 1, and
\* every session expiry raises it by at least 1 by the time its listener ends
C3_EpochPerToken ==
    [][/\ \A t \in Tokens : observed'[t] >= observed[t]
       /\ Registers =>
             EpochAfter(local'.context.token) >= EpochOf(local'.context.token) + 1
       /\ (session_hook # <<>> /\ session_hook' = <<>>) =>
             EpochAfter(session_hook[1].context.token)
                 >= EpochOf(session_hook[1].context.token) + 1]_vars

\* C3, amended: while a token keeps its VirtualNetwork record the epoch never
\* decreases; every registration that gets through the locked section raises
\* the epoch by exactly 1, counted from 0 for a new record; a session
\* listener that has passed the id-match guard ends only by raising it by 1
C3_EpochPerRecord ==
    [][/\ \A t \in Tokens :
             (t \in DOMAIN VIRTUAL_NETWORK /\ t \in DOMAIN VIRTUAL_NETWORK')
                 => VIRTUAL_NETWORK'[t].epoch >= VIRTUAL_NETWORK[t].epoch
       /\ Registers =>
             EpochAfter(local'.context.token) = EpochOf(local'.context.token) + 1
       /\ (session_hook # <<>> /\ session_hook[1].pc # "start" /\ session_hook' = <<>>) =>
             /\ session_hook[1].pc = "epoch"
             /\ EpochAfter(session_hook[1].context.token)
                   = EpochOf(session_hook[1].context.token) + 1]_vars

\* two registrations and a session expiry have raised the epoch to 3
C3_Witness ==
    /\ session_hook = <<>>
    /\ expiries = 1
    /\ EpochOf("t") = 3
    /\ \E m \in DOMAIN MapOf("t") : MapOf("t")[m].status = "Offline"

----------------------------------------------------------------------------
(* C4 *)

\* the session of addr, the device address of its (token, virtual_ip) and the
\* MAC session of its (token, mac_address) are all present
C4_Triad(addr) ==
    /\ addr \in DOMAIN SESSION
    /\ \E key \in DOMAIN DEVICE_ADDRESS :
          key[1] = SESSION[addr].token /\ key[2] = SESSION[addr].virtual_ip
    /\ \E key \in MAC_ADDRESS_SESSION :
          key[1] = SESSION[addr].token /\ key[2] = SESSION[addr].mac_address

\* addr sends a datagram that is no registration request
C4_Received(addr) ==
    \/ Disconnect(addr)
    \/ \E packet \in Others : Ignore(addr, packet)
    \/ \E packet \in Pings : Ping(addr, packet)
    \/ \E packet \in Turns : TurnUnicast(addr, packet) \/ TurnBroadcast(addr, packet)

----------------------------------------------------------------------------
(* C5 *)

\* the context of the running session listener is stale: its (token, MAC) has
\* since registered from another address, whose session is live and owns the
\* device address
C5_Rebound ==
    /\ session_hook # <<>>
    /\ \E a \in DOMAIN SESSION :
          /\ a # session_hook[1].addr
          /\ SESSION[a].token = session_hook[1].context.token
          /\ SESSION[a].mac_address = session_hook[1].context.mac_address
          /\ <<SESSION[a].token, SESSION[a].virtual_ip>> \in DOMAIN DEVICE_ADDRESS
          /\ DEVICE_ADDRESS[<<SESSION[a].token, SESSION[a].virtual_ip>>] = a

\* C5: when a (token, MAC) registered from addr1 registers again from addr2,
\* the later expiry of the session of addr1 is stopped by the id-match guard:
\* the device is not set Offline and the device address that points to addr2
\* is not removed
C5_StaleExpiryIsStopped ==
    [][C5_Rebound =>
          LET token == session_hook[1].context.token
              mac == session_hook[1].context.mac_address
              key == <<token, session_hook[1].context.virtual_ip>>
          IN  /\ (mac \in DOMAIN MapOf(token) /\ MapOf(token)[mac].status = "Online")
                    => (mac \in DOMAIN MapAfter(token)
                        /\ MapAfter(token)[mac].status = "Online")
              /\ key \in DOMAIN DEVICE_ADDRESS => key \in DOMAIN DEVICE_ADDRESS']_vars

\* the expiry of the session of the old address has gone through: the device
\* is Offline and has no device address, while the session of its new address
\* is live
C5_Witness ==
    /\ session_hook = <<>>
    /\ pc = "recv"
    /\ \E a \in DOMAIN SESSION :
          /\ SESSION[a].mac_address \in DOMAIN MapOf(SESSION[a].token)
          /\ MapOf(SESSION[a].token)[SESSION[a].mac_address].id = SESSION[a].id
          /\ MapOf(SESSION[a].token)[SESSION[a].mac_address].status = "Offline"
          /\ <<SESSION[a].token, SESSION[a].virtual_ip>> \notin DOMAIN DEVICE_ADDRESS

----------------------------------------------------------------------------
(* C6 *)

\* no session and no registration in progress binds the (token, MAC) of the
\* context
C6_NoRebind(context) ==
    /\ \A a \in DOMAIN SESSION :
          <<SESSION[a].token, SESSION[a].mac_address>>
              # <<context.token, context.mac_address>>
    /\ pc = "reg_session" =>
          <<local.context.token, local.context.mac_address>>
              # <<context.token, context.mac_address>>

\* C6: when the listener of an expired session ends, and no re-bind of its
\* (token, MAC) overlaps, the device registered under the id of the session
\* is Offline and the device address of (token, its virtual ip) is absent
C6_ExpiredDeviceIsOffline ==
    [][(session_hook # <<>> /\ session_hook' = <<>>) =>
          LET context == session_hook[1].context
              map == MapAfter(context.token)
          IN  (/\ C6_NoRebind(context)
               /\ context.mac_address \in DOMAIN map
               /\ map[context.mac_address].id = context.id)
              => /\ map[context.mac_address].status = "Offline"
                 /\ <<context.token, map[context.mac_address].ip>>
                        \notin DOMAIN DEVICE_ADDRESS']_vars

\* the only session of MAC 1 has expired and its listener has ended: the
\* device is Offline and has no device address
C6_Witness ==
    /\ session_hook = <<>>
    /\ expiries = 1
    /\ SESSION = EmptyMap
    /\ pc = "recv"
    /\ DOMAIN MapOf("t") = {1}
    /\ MapOf("t")[1].status = "Offline"
    /\ DEVICE_ADDRESS = EmptyMap

----------------------------------------------------------------------------
(* C7 *)

\* C7: a registration for a MAC that is in the device map answers with the
\* virtual ip of its DeviceInfo, keeps the id and the ip, sets the status
\* Online and raises the epoch by 1; and as long as a MAC stays in the map its
\* (id, ip) never changes
C7_ReRegistrationKeepsBinding ==
    [][/\ Registers =>
             LET token == local'.context.token
                 mac == local'.context.mac_address
             IN  mac \in DOMAIN MapOf(token) =>
                    /\ local'.response.virtual_ip = MapOf(token)[mac].ip
                    /\ local'.context.virtual_ip = MapOf(token)[mac].ip
                    /\ local'.context.id = MapOf(token)[mac].id
                    /\ MapAfter(token)[mac].id = MapOf(token)[mac].id
                    /\ MapAfter(token)[mac].ip = MapOf(token)[mac].ip
                    /\ MapAfter(token)[mac].status = "Online"
                    /\ EpochAfter(token) = EpochOf(token) + 1
                    /\ local'.response.epoch = EpochOf(token) + 1
       /\ \A t \in Tokens :
             (t \in DOMAIN VIRTUAL_NETWORK /\ t \in DOMAIN VIRTUAL_NETWORK') =>
                 \A m \in DOMAIN MapOf(t) \cap DOMAIN MapAfter(t) :
                     /\ MapAfter(t)[m].id = MapOf(t)[m].id
                     /\ MapAfter(t)[m].ip = MapOf(t)[m].ip]_vars

\* MAC 1, alone in its network, has registered, registered again and is
\* registering a third time: the response carries epoch 3 and the ip and id of
\* the first registration
C7_Witness ==
    /\ pc = "reg_session"
    /\ expiries = 0
    /\ local.response.epoch = 3
    /\ DOMAIN MapOf("t") = {1}
    /\ local.context.mac_address = 1
    /\ local.response.virtual_ip = virtual_gateway + 1
    /\ local.context.id = 0

----------------------------------------------------------------------------
(* C8 *)

\* C8: the device_info_list of a registration response holds one record for
\* each other device of the token's network, as it is when the response is
\* built, and no record with the virtual ip assigned to the requester
C8_ListExcludesRequester ==
    /\ [][Registers =>
             LET token == local'.context.token
                 mac == local'.context.mac_address
                 list == local'.response.device_info_list
                 others == DOMAIN MapAfter(token) \ {mac}
             IN  /\ list = {[virtual_ip |-> MapAfter(token)[m].ip,
                             name |-> MapAfter(token)[m].name,
                             device_status |->
                                 IF MapAfter(token)[m].status = "Online" THEN 0 ELSE 1] :
                                m \in others}
                 /\ Cardinality(list) = Cardinality(others)]_vars
    /\ [](\A r \in Responses : \A d \in r.device_info_list : d.virtual_ip # r.virtual_ip)

\* MAC 2 is sent a response that assigns 10.13.0.3 and lists MAC 1 at
\* 10.13.0.2
C8_Witness ==
    \E i \in DOMAIN out :
        /\ out[i].kind = "RegistrationResponse"
        /\ out[i].response.virtual_ip = virtual_gateway + 2
        /\ out[i].response.device_info_list =
              {[virtual_ip |-> virtual_gateway + 1, name |-> "A", device_status |-> 0]}

----------------------------------------------------------------------------
(* C9 *)

\* C9, as claimed: with 126 MACs bound in a token's network, the registration
\* request of a 127th MAC is answered with Error/AddressExhausted, and no
\* DeviceInfo, session, device address or MAC session is created for it
C9_PoolExhausted ==
    [][\A addr \in V4Addrs :
          (/\ pc = "recv"
           /\ Cardinality(DOMAIN MapOf("t")) = 126
           /\ PoolRequest.mac_address \notin DOMAIN MapOf("t")
           /\ RegisterLock(addr, PoolRequest))
          => /\ out' = <<[kind |-> "AddressExhausted", to |-> addr]>>
             /\ pc' = "recv"
             /\ DOMAIN MapAfter("t") = DOMAIN MapOf("t")
             /\ SESSION' = SESSION
             /\ DEVICE_ADDRESS' = DEVICE_ADDRESS
             /\ MAC_ADDRESS_SESSION' = MAC_ADDRESS_SESSION]_vars

\* C9, amended: the scan covers 127 addresses. With 126 MACs bound the 127th
\* MAC is still registered, at 10.13.0.128; with 127 MACs bound the request of
\* a 128th MAC is answered with Error/AddressExhausted, and no DeviceInfo,
\* session, device address or MAC session is created for it
C9_ExhaustedAfter127 ==
    [][\A addr \in V4Addrs :
          (/\ pc = "recv"
           /\ PoolRequest.mac_address \notin DOMAIN MapOf("t")
           /\ RegisterLock(addr, PoolRequest))
          => /\ Cardinality(DOMAIN MapOf("t")) = 126 =>
                   /\ pc' = "reg_session"
                   /\ out' = <<>>
                   /\ local'.response.virtual_ip = virtual_gateway + 127
                   /\ PoolRequest.mac_address \in DOMAIN MapAfter("t")
             /\ Cardinality(DOMAIN MapOf("t")) = 127 =>
                   /\ out' = <<[kind |-> "AddressExhausted", to |-> addr]>>
                   /\ pc' = "recv"
                   /\ DOMAIN MapAfter("t") = DOMAIN MapOf("t")
                   /\ SESSION' = SESSION
                   /\ DEVICE_ADDRESS' = DEVICE_ADDRESS
                   /\ MAC_ADDRESS_SESSION' = MAC_ADDRESS_SESSION]_vars

\* the 128th MAC has been refused: 127 devices, nothing recorded for MAC 128,
\* and Error/AddressExhausted sent to the requester
C9_Witness ==
    /\ Cardinality(DOMAIN MapOf("t")) = 127
    /\ 128 \notin DOMAIN MapOf("t")
    /\ <<"t", 128>> \notin MAC_ADDRESS_SESSION
    /\ out = <<[kind |-> "AddressExhausted", to |-> PoolAddr]>>

----------------------------------------------------------------------------
(* C10 *)

\* C10: a registration for a MAC that is not in the device map is assigned
\* the numerically lowest address of the pool that no device
\* of the network holds
C10_LowestFreeIp ==
    [][Registers =>
          LET token == local'.context.token
              mac == local'.context.mac_address
              used == {MapOf(token)[m].ip : m \in DOMAIN MapOf(token)}
              ip == local'.response.virtual_ip
          IN  mac \notin DOMAIN MapOf(token) =>
                 /\ ip \notin used
                 /\ ip >= virtual_gateway + 1
                 /\ \A lower \in (virtual_gateway + 1) .. (ip - 1) : lower \in used
                 /\ MapAfter(token)[mac].ip = ip]_vars

\* MAC 1, whose MAC session expired after MAC 2 had taken 10.13.0.3, is
\* registered anew and given 10.13.0.2 rather than 10.13.0.4
C10_Witness ==
    /\ pc = "reg_session"
    /\ expiries = 1
    /\ local.context.mac_address = 1
    /\ local.response.virtual_ip = virtual_gateway + 1
    /\ 2 \in DOMAIN MapOf("t")
    /\ MapOf("t")[2].ip = virtual_gateway + 2
    /\ local.context.id > MapOf("t")[2].id

----------------------------------------------------------------------------
(* C11 *)

\* the handler of a Ping ends: it goes from the Pong back to the receive loop
C11_PingEnds == pc = "ping" /\ pc' = "recv"

\* C11: a Ping of an authorised session is answered with a Pong to the sender
\* first; then an UpdateDeviceList goes to the sender if and only if try_lock
\* gets the lock of the network and the epoch of the Ping differs from the
\* epoch of the network, and it carries that epoch and every device but the
\* one with the sender's virtual ip; a Ping with the current epoch gets the
\* Pong only
C11_PongThenUpdate ==
    [][/\ (pc = "recv" /\ pc' = "ping") =>
             /\ out' = <<[kind |-> "Pong", to |-> local'.addr]>>
             /\ local'.addr \in DOMAIN SESSION
             /\ local'.context = SESSION[local'.addr]
       /\ C11_PingEnds =>
             LET token == local.context.token
                 acquired == token \in DOMAIN VIRTUAL_NETWORK /\ mutex[token] = "free"
                 differs == EpochOf(token) # local.epoch
                 others == {m \in DOMAIN MapOf(token) :
                               MapOf(token)[m].ip # local.context.virtual_ip}
             IN  /\ (acquired /\ differs) =>
                       out' = <<[kind |-> "UpdateDeviceList", to |-> local.addr,
                                 epoch |-> EpochOf(token),
                                 device_info_list |->
                                     {[virtual_ip |-> MapOf(token)[m].ip,
                                       name |-> MapOf(token)[m].name,
                                       device_status |->
                                           IF MapOf(token)[m].status = "Online"
                                           THEN 0 ELSE 1] : m \in others}]>>
                 /\ ~(acquired /\ differs) => out' = <<>>
                 /\ mutex' = mutex
                 /\ VIRTUAL_NETWORK' = VIRTUAL_NETWORK]_vars

\* A at 10.13.0.2, which pinged with epoch 1 after B had registered, has been
\* sent the device list of epoch 2 with B in it
C11_Witness ==
    /\ pc = "recv"
    /\ \E a \in DOMAIN SESSION :
          /\ SESSION[a].virtual_ip = virtual_gateway + 1
          /\ out = <<[kind |-> "UpdateDeviceList", to |-> a, epoch |-> 2,
                      device_info_list |->
                          {[virtual_ip |-> virtual_gateway + 2, name |-> "B",
                            device_status |-> 0]}]>>

----------------------------------------------------------------------------
(* C12 *)

\* the receive loop takes the list of ips for a broadcast frame
C12_Snapshot == pc = "recv" /\ pc' = "broadcast"

\* the receive loop sends a broadcast frame out
C12_Sends == pc = "broadcast" /\ pc' = "recv"

\* C12, as claimed: a broadcast frame of an authorised session of token T is
\* forwarded once to the recorded address of each other device of T that has
\* a device address, and never back to the sender
C12_BroadcastNotToSender ==
    [][C12_Sends =>
          /\ \A m \in DOMAIN MapOf(local.context.token) :
                LET key == <<local.context.token, MapOf(local.context.token)[m].ip>>
                IN  (key[2] # local.context.virtual_ip /\ key \in DOMAIN DEVICE_ADDRESS)
                       => \E i \in DOMAIN out' : out'[i].to = DEVICE_ADDRESS[key]
          /\ \A i \in DOMAIN out' : out'[i].to # local.addr]_vars

\* C12, amended: the frame is forwarded once to the address recorded under
\* (T, ip) for each ip, other than the sender's own virtual ip, that a device
\* of T held when the lock was taken and that has a device address when the
\* frame is sent; nothing goes to the address recorded under the sender's own
\* virtual ip, but the sender's address gets the frame where it is recorded
\* for the ip of another device
C12_BroadcastToOtherIps ==
    [][/\ C12_Snapshot =>
             /\ IsBroadcast(local'.dest)
             /\ mutex[local'.context.token] = "free"
             /\ local'.context = SESSION[local'.addr]
             /\ local'.ips = {MapOf(local'.context.token)[m].ip :
                                 m \in DOMAIN MapOf(local'.context.token)}
                             \ {local'.context.virtual_ip}
       /\ C12_Sends =>
             LET token == local.context.token
                 reached == {ip \in local.ips : <<token, ip>> \in DOMAIN DEVICE_ADDRESS}
             IN  /\ local.context.virtual_ip \notin reached
                 /\ Len(out') = Cardinality(reached)
                 /\ \E order \in Orders(reached) :
                       \A i \in DOMAIN out' :
                           /\ out'[i].kind = "Turn"
                           /\ out'[i].to = DEVICE_ADDRESS[<<token, order[i]>>]
                           /\ out'[i].dest = local.dest
                           /\ out'[i].from = local.addr]_vars

\* the broadcast frame of one device has gone to the address of the other
C12_Witness ==
    /\ pc = "recv"
    /\ Len(out) = 1
    /\ out[1].kind = "Turn"
    /\ IsBroadcast(out[1].dest)
    /\ out[1].to # out[1].from
    /\ out[1].from \in DOMAIN SESSION
    /\ \E m \in DOMAIN MapOf("t") :
          /\ MapOf("t")[m].ip # SESSION[out[1].from].virtual_ip
          /\ <<"t", MapOf("t")[m].ip>> \in DOMAIN DEVICE_ADDRESS
          /\ DEVICE_ADDRESS[<<"t", MapOf("t")[m].ip>>] = out[1].to

----------------------------------------------------------------------------
(* C13 *)

\* the token of the session that a frame in flight was received from
C13_TokenOf(addr) == IF pc = "broadcast" THEN local.context.token ELSE SESSION[addr].token

\* C13: a unicast frame of an authorised session of token T for destination D
\* goes to exactly the address recorded under (T, D), and where there is no
\* such entry nothing at all is sent; no frame, unicast or broadcast, goes to
\* an address that is recorded under another token only
C13_UnicastWithinToken ==
    [][/\ \A i \in DOMAIN out' :
             out'[i].kind = "Turn" =>
                 \E key \in DOMAIN DEVICE_ADDRESS :
                     /\ key[1] = C13_TokenOf(out'[i].from)
                     /\ DEVICE_ADDRESS[key] = out'[i].to
       /\ (pc = "recv" /\ pc' = "recv" /\ \E i \in DOMAIN out' : out'[i].kind = "Turn") =>
             /\ Len(out') = 1
             /\ ~IsBroadcast(out'[1].dest)
             /\ <<SESSION[out'[1].from].token, IpToU32(out'[1].dest)>>
                    \in DOMAIN DEVICE_ADDRESS
             /\ out'[1].to = DEVICE_ADDRESS[<<SESSION[out'[1].from].token,
                                              IpToU32(out'[1].dest)>>]
       /\ \A addr \in Addrs, packet \in Turns :
             (/\ TurnUnicast(addr, packet)
              /\ <<SESSION[addr].token, IpToU32(packet.dest)>> \notin DOMAIN DEVICE_ADDRESS)
             => out' = <<>> /\ pc' = "recv"]_vars

\* the device of "u" has sent a frame for 10.13.0.2, which both tokens have a
\* device address for, at different addresses: it went to the one of "u"
C13_Witness ==
    /\ <<"t", virtual_gateway + 1>> \in DOMAIN DEVICE_ADDRESS
    /\ <<"u", virtual_gateway + 1>> \in DOMAIN DEVICE_ADDRESS
    /\ DEVICE_ADDRESS[<<"t", virtual_gateway + 1>>]
          # DEVICE_ADDRESS[<<"u", virtual_gateway + 1>>]
    /\ Len(out) = 1
    /\ out[1].kind = "Turn"
    /\ out[1].dest = <<10, 13, 0, 2>>
    /\ out[1].from \in DOMAIN SESSION
    /\ SESSION[out[1].from].token = "u"
    /\ out[1].to = DEVICE_ADDRESS[<<"u", virtual_gateway + 1>>]

----------------------------------------------------------------------------
(* C14 *)

\* C14: no failure in the handling of one datagram (a malformed or truncated
\* datagram, a reply that cannot be sent) ends the receive loop: it is back
\* at recv_from, or still inside a handler that returns to it
C14_LoopSurvives == pc \in {"recv", "reg_session", "ping", "broadcast"}

\* the receive loop has ended on the truncated Ping of a registered session,
\* without a Pong
C14_Witness ==
    /\ pc = "panicked"
    /\ out = <<>>
    /\ \E addr \in DOMAIN SESSION : Authorised(addr)

----------------------------------------------------------------------------
(* C15 *)

\* a registration replaces the session entry of its address
C15_SessionReplaced ==
    pc = "reg_session" /\ pc' = "recv" /\ local.addr \in DOMAIN SESSION

\* a registration replaces the MAC session entry of its (token, MAC)
C15_MacReplaced ==
    /\ Registers
    /\ <<local'.context.token, local'.context.mac_address>> \in MAC_ADDRESS_SESSION

\* C15: the removal of a session or MAC session entry by replacement, and not
\* by time to idle, starts no listener run and so leaves every VirtualNetwork
\* (epoch, device map, statuses) as it is and removes no device address: the
\* replacing registration raises the epoch by its own 1 only and removes no
\* device
C15_ReplacementIsNoOp ==
    [][/\ C15_SessionReplaced =>
             /\ session_hook' = session_hook
             /\ mac_hook' = mac_hook
             /\ VIRTUAL_NETWORK' = VIRTUAL_NETWORK
             /\ DEVICE_ADDRESS' = DEVICE_ADDRESS
       /\ C15_MacReplaced =>
             /\ session_hook' = session_hook
             /\ mac_hook' = mac_hook
             /\ DOMAIN DEVICE_ADDRESS \subseteq DOMAIN DEVICE_ADDRESS'
             /\ DOMAIN MapOf(local'.context.token)
                    \subseteq DOMAIN MapAfter(local'.context.token)
             /\ EpochAfter(local'.context.token) = EpochOf(local'.context.token) + 1
             /\ \A m \in DOMAIN MapOf(local'.context.token) :
                    m # local'.context.mac_address =>
                        MapAfter(local'.context.token)[m] = MapOf(local'.context.token)[m]]_vars

\* MAC 2 has registered from the address of MAC 1 and taken its session over:
\* no listener runs, MAC 1 is still Online and keeps its device address
C15_Witness ==
    /\ pc = "recv"
    /\ expiries = 0
    /\ session_hook = <<>>
    /\ mac_hook = <<>>
    /\ Cardinality(DOMAIN SESSION) = 1
    /\ \A a \in DOMAIN SESSION : SESSION[a].mac_address = 2
    /\ DOMAIN MapOf("t") = {1, 2}
    /\ MapOf("t")[1].status = "Online"
    /\ <<"t", MapOf("t")[1].ip>> \in DOMAIN DEVICE_ADDRESS
    /\ \A a \in DOMAIN SESSION : DEVICE_ADDRESS[<<"t", MapOf("t")[1].ip>>] = a

----------------------------------------------------------------------------
(* C16 *)

\* C16: with the session listener running beside the receive loop, in the
\* order status Offline, device address invalidated, epoch raised, no unicast
\* or broadcast frame is forwarded to a device whose status is Offline at the
\* moment of the forward
C16_NoForwardToOffline ==
    [][/\ (pc = "recv" /\ pc' = "recv" /\ \E i \in DOMAIN out' : out'[i].kind = "Turn") =>
             LET map == MapOf(SESSION[out'[1].from].token)
             IN  \A m \in DOMAIN map :
                    map[m].ip = IpToU32(out'[1].dest) => map[m].status = "Online"
       /\ C12_Sends =>
             LET map == MapOf(local.context.token)
             IN  \A m \in DOMAIN map :
                    (/\ map[m].ip \in local.ips
                     /\ <<local.context.token, map[m].ip>> \in DOMAIN DEVICE_ADDRESS)
                    => map[m].status = "Online"]_vars

\* a unicast frame has been forwarded to a device that the listener, which
\* has yet to invalidate the device address, has already set Offline
C16_Witness ==
    /\ session_hook # <<>>
    /\ session_hook[1].pc = "invalidate"
    /\ Len(out) = 1
    /\ out[1].kind = "Turn"
    /\ ~IsBroadcast(out[1].dest)
    /\ out[1].from # out[1].to
    /\ \E m \in DOMAIN MapOf("t") :
          /\ MapOf("t")[m].ip = IpToU32(out[1].dest)
          /\ MapOf("t")[m].status = "Offline"
          /\ m = session_hook[1].context.mac_address

----------------------------------------------------------------------------
(* C17 *)

\* a registration of token has inserted the MAC session and the device
\* address of its binding, and not yet the session
C17_Partial(token) ==
    /\ pc = "reg_session"
    /\ local.context.token = token
    /\ local.addr \in DOMAIN SESSION => SESSION[local.addr] # local.context

\* a listener locks the network of token in this step
C17_ListenerLocks(token) ==
    /\ token \in DOMAIN VIRTUAL_NETWORK
    /\ \/ /\ session_hook # <<>>
          /\ session_hook[1].pc = "start"
          /\ session_hook[1].context.token = token
          /\ session_hook' # session_hook
       \/ /\ mac_hook # <<>>
          /\ mac_hook[1][1] = token
          /\ mac_hook' = <<>>

\* C17: the MAC session, the device address and the session of a successful
\* registration are all inserted while the lock of the network is held, so no
\* listener that takes the lock sees or acts on a binding of which only some
\* of the three entries exist
C17_BindingUnderLock ==
    [][\A token \in Tokens : C17_ListenerLocks(token) => ~C17_Partial(token)]_vars

\* the session listener has set the device of a registration Offline while
\* the registration has still to insert its session
C17_Witness ==
    /\ pc = "reg_session"
    /\ session_hook # <<>>
    /\ session_hook[1].pc = "invalidate"
    /\ session_hook[1].context.token = local.context.token
    /\ session_hook[1].context.mac_address = local.context.mac_address
    /\ local.addr \notin DOMAIN SESSION
    /\ MapOf(local.context.token)[local.context.mac_address].status = "Offline"

----------------------------------------------------------------------------
(* C18 *)

\* the receive loop has sent the Pong for a Ping of addr and is about to try
\* the lock
C18_Pinged(addr) == pc = "ping" /\ local.addr = addr

\* an UpdateDeviceList has just been sent to addr
C18_Updated(addr) ==
    \E i \in DOMAIN out : out[i].kind = "UpdateDeviceList" /\ out[i].to = addr

\* C18: a session that keeps sending Pings with an epoch other than the
\* epoch of its network is sent an UpdateDeviceList again and again: an update
\* that was skipped because try_lock failed is made up for by a later Ping
C18_UpdateEventually ==
    \A addr \in V4Addrs : ([]<>C18_Pinged(addr)) => ([]<>C18_Updated(addr))

\* after a session listener has held the lock and raised the epoch to 3, a
\* Ping has brought its sender the list with the Offline device
C18_Witness ==
    /\ expiries = 1
    /\ session_hook = <<>>
    /\ \E i \in DOMAIN out :
          /\ out[i].kind = "UpdateDeviceList"
          /\ out[i].epoch = 3
          /\ \E d \in out[i].device_info_list : d.device_status = 1

----------------------------------------------------------------------------
(* C19 *)

\* the (MAC, ip, status) entries of the device map of a token
C19_Entries(network) ==
    {<<m, network.virtual_ip_map[m].ip, network.virtual_ip_map[m].status>> :
        m \in DOMAIN network.virtual_ip_map}

\* C19: while a token keeps its VirtualNetwork record, its epoch never falls,
\* and every change of the device map (a device inserted, a MAC removed, a
\* status changed) has raised the epoch by the time the lock it was made
\* under is free again; so two looks under the lock that see one epoch see
\* the same (MAC, ip, status) entries
C19_EpochVersionsMap ==
    [][\A t \in Tokens :
          (t \in DOMAIN VIRTUAL_NETWORK /\ t \in DOMAIN VIRTUAL_NETWORK') =>
              /\ VIRTUAL_NETWORK'[t].epoch >= VIRTUAL_NETWORK[t].epoch
              /\ (mutex[t] = "free" /\ mutex'[t] = "free"
                  /\ C19_Entries(VIRTUAL_NETWORK'[t]) # C19_Entries(VIRTUAL_NETWORK[t]))
                    => VIRTUAL_NETWORK'[t].epoch > VIRTUAL_NETWORK[t].epoch
              /\ (mutex[t] # "free" /\ mutex'[t] = "free")
                    => VIRTUAL_NETWORK'[t].epoch > VIRTUAL_NETWORK[t].epoch
              /\ (mutex[t] # "free" /\ mutex'[t] # "free")
                    => VIRTUAL_NETWORK'[t].epoch = VIRTUAL_NETWORK[t].epoch]_vars

\* the MAC listener has removed MAC 1 and raised the epoch from 2 to 3 under
\* the same lock
C19_Witness ==
    /\ mac_hook = <<>>
    /\ expiries = 1
    /\ mutex["t"] = "free"
    /\ <<"t", 1>> \notin MAC_ADDRESS_SESSION
    /\ DOMAIN MapOf("t") = {2}
    /\ EpochOf("t") = 3

----------------------------------------------------------------------------
(* C20 *)

\* the virtual ip of the context belongs to another device by now: to another
\* MAC, or to the MAC of the context under another id
C20_HeldByOther(context) ==
    \E m \in DOMAIN MapOf(context.token) :
        /\ MapOf(context.token)[m].ip = context.virtual_ip
        /\ m # context.mac_address \/ MapOf(context.token)[m].id # context.id

\* C20: the listener of an expired session never removes the device address
\* of a device other than the one the session was bound to: where the
\* (token, virtual_ip) of the session belongs to another MAC or to a device
\* of another id, the device address of that device outlasts the listener
C20_OtherDeviceKeepsAddress ==
    [][(/\ session_hook # <<>>
        /\ session_hook' # session_hook
        /\ C20_HeldByOther(session_hook[1].context)
        /\ <<session_hook[1].context.token, session_hook[1].context.virtual_ip>>
               \in DOMAIN DEVICE_ADDRESS)
       => <<session_hook[1].context.token, session_hook[1].context.virtual_ip>>
              \in DOMAIN DEVICE_ADDRESS']_vars

\* the listener of a session of MAC 1 has invalidated the device address of
\* 10.13.0.2, which MAC 2 holds and has a live session for
C20_Witness ==
    /\ session_hook # <<>>
    /\ session_hook[1].pc = "epoch"
    /\ session_hook[1].context.mac_address = 1
    /\ session_hook[1].context.virtual_ip = virtual_gateway + 1
    /\ 1 \notin DOMAIN MapOf("t")
    /\ 2 \in DOMAIN MapOf("t")
    /\ MapOf("t")[2].ip = virtual_gateway + 1
    /\ MapOf("t")[2].status = "Online"
    /\ <<"t", virtual_gateway + 1>> \notin DOMAIN DEVICE_ADDRESS
    /\ \E a \in DOMAIN SESSION : SESSION[a].mac_address = 2

====
